---- MODULE Spec2Model ----
(***************************************************************************)
(* Page decomposition and OCR-fallback pipeline of the document processor. *)
(*                                                                         *)
(* The model follows src/app/services/content_extractor.py (ContentExtractor,*)
(* PageExtractor), driven by the /process handler of src/app/api.py, which  *)
(* assembles the output with src/app/services/model_adapters.py.  The      *)
(* recognition engine (docling's DocumentConverter) is an opaque           *)
(* collaborator: each convert call nondeterministically raises, returns no *)
(* document, returns a tree that lacks the requested page, or returns a    *)
(* tree holding the page and a sequence of nodes.                          *)
(*                                                                         *)
(* Three specifications share the variables: Spec is the page pipeline,    *)
(* SpecText the text normalizer (_clean_pdf_glyphs) applied to sample      *)
(* texts, SpecAdapter the model adapters applied to a page of one node.    *)
(***************************************************************************)
EXTENDS Integers, Sequences, FiniteSets, TLC

\* ------------------------------------------------------------------ bounds
\* largest page number a request names and largest page count of a document
MaxPage == 2
\* largest number of nodes the converter returns for one page
MaxNodes == 2
\* largest number of pieces a sample text is made of
MaxPieces == 3
\* largest number of provenance entries of a node
MaxProv == 2
\* SlicePositionModelAdapter's default bbox_precision
DefaultBboxPrecision == 2
\* the default image_quality of ImageExtractor.get_data and of the adapters,
\* and a quality a caller may ask for instead
DefaultImageQuality == 80
LowImageQuality == 50

VARIABLES
    ocr_pipeline,   \* ContentExtractor.ocr_pipeline
    dl_converters,  \* ContentExtractor._dl_converters, the stage list
    page_count,     \* what the page-count probe answered, 0 until it is asked
    first_page,     \* argument of extract_pages
    last_page,      \* argument of extract_pages: [set, val], unset is None
    pc,             \* position of the extract_pages generator
    range_last,     \* the generator's local last_page once resolved
    page_no,        \* the generator's loop variable
    stage_i,        \* index of the converter extract_page tries next
    results,        \* what the stages of the current extract_page call returned
    calls,          \* every converter.convert invocation so far, in order
    item,           \* the pair the generator yielded, until the caller used it
    yielded,        \* page numbers (and None-ness) of all pairs yielded so far
    pulls,          \* number of elements the caller has requested
    pages,          \* the list process_document accumulates
    status,         \* process_document: running, returned or error500
    text,           \* argument of _clean_pdf_glyphs, a sequence of characters
    cleaned,        \* what _clean_pdf_glyphs returned for text
    recleaned,      \* what _clean_pdf_glyphs returned for cleaned
    tpc,            \* how far the text normalizer has been applied
    extractor,      \* the PageExtractor handed to PageModelAdapter.get_model
    adapter,        \* the adapters' settings (screenshot flags, bbox_precision)
    page_model,     \* the models.Page that get_model returned
    apc             \* whether get_model has been called

\* state of the page pipeline, of the text normalizer, of the model adapters
pipeVars == <<ocr_pipeline, dl_converters, page_count, first_page, last_page,
              pc, range_last, page_no, stage_i, results, calls, item, yielded,
              pulls, pages, status>>
textVars == <<text, cleaned, recleaned, tpc>>
adapterVars == <<extractor, adapter, page_model, apc>>

vars == <<pipeVars, textVars, adapterVars>>

\* ------------------------------------------------------------- data values
\* the three pipeline modes of models.OcrPipeline
OcrPipelines == {"FAST", "FULL", "HYBRID"}

\* Python's None where a PageExtractor is expected
NonePage == [is_none |-> TRUE, page_no |-> 0, first_slice_no |-> 0,
             stage |-> "none", items |-> <<>>]

\* the loop variables of process_document before the first pair and after
\* the loop body has used the pair
NoItem == [page_no |-> 0, page |-> NonePage]

\* the nodes iterate_items can yield: TextItem with or without text,
\* TableItem, PictureItem, and any other node (a group, a key-value item)
Nodes ==
    {[kind |-> "text", text |-> "x"], [kind |-> "text", text |-> ""],
     [kind |-> "table", text |-> ""], [kind |-> "picture", text |-> ""],
     [kind |-> "other", text |-> ""]}

SeqsUpTo(S, n) == UNION {[1..k -> S] : k \in 0..n}

\* every convert call builds a new tree and numbers its nodes from 0 (docling
\* does so within each of its lists: "#/texts/0", "#/tables/0", ...): a
\* node's self_ref is its number in the tree that holds it
WithSelfRef(s) ==
    [k \in DOMAIN s |->
        [kind |-> s[k].kind, text |-> s[k].text, self_ref |-> k - 1]]

\* what one converter.convert call can do
Outcomes ==
    {[kind |-> "raise", items |-> <<>>],
     [kind |-> "nodoc", items |-> <<>>],
     [kind |-> "nopage", items |-> <<>>]}
    \cup {[kind |-> "tree", items |-> WithSelfRef(s)] :
              s \in SeqsUpTo(Nodes, MaxNodes)}

\* ---------------------------------------------------------- PageExtractor
\* isinstance(dl_item, (TextItem, TableItem, PictureItem))
IsSliceItem(n) == n.kind \in {"text", "table", "picture"}

\* variant: any text, table or picture node counts as text
has_text_slices_any(page) ==
    \E k \in DOMAIN page.items : IsSliceItem(page.items[k])

\* variant: a text node counts even when its text is empty
has_text_slices_anyText(page) ==
    \E k \in DOMAIN page.items :
        /\ IsSliceItem(page.items[k])
        /\ page.items[k].kind = "text"

has_text_slices(page) ==
    \E k \in DOMAIN page.items :
        /\ IsSliceItem(page.items[k])
        /\ page.items[k].kind = "text"
        /\ page.items[k].text # ""

\* the (slice_no, SliceExtractor) pairs get_slices yields, in order:
\* slice_no is read from first_slice_no once and never advanced in the loop
get_slices(page) ==
    LET el == SelectSeq(page.items, IsSliceItem)
    IN  [k \in DOMAIN el |->
            [slice_no |-> page.first_slice_no, dl_item |-> el[k]]]

\* PageExtractor(result.document, page_no=..., first_slice_no=...)
PageExtractor(out, stage, p, first_slice_no) ==
    [is_none |-> FALSE, page_no |-> p, first_slice_no |-> first_slice_no,
     stage |-> stage, items |-> out.items]

\* ------------------------------------------------------- ContentExtractor
\* variant: HYBRID gets a second full-OCR converter
load_dl_converters_retry(pipeline) ==
    (IF pipeline \in {"HYBRID", "FAST"} THEN <<"fast">> ELSE <<>>)
    \o (IF pipeline \in {"HYBRID", "FULL"} THEN <<"full">> ELSE <<>>)
    \o (IF pipeline = "HYBRID" THEN <<"full">> ELSE <<>>)

\* variant: the full-OCR converter is appended first
load_dl_converters_fullFirst(pipeline) ==
    (IF pipeline \in {"HYBRID", "FULL"} THEN <<"full">> ELSE <<>>)
    \o (IF pipeline \in {"HYBRID", "FAST"} THEN <<"fast">> ELSE <<>>)

load_dl_converters(pipeline) ==
    (IF pipeline \in {"HYBRID", "FAST"} THEN <<"fast">> ELSE <<>>)
    \o (IF pipeline \in {"HYBRID", "FULL"} THEN <<"full">> ELSE <<>>)

\* default of extract_page's first_slice_no, the value extract_pages leaves
DefaultFirstSliceNo == 1

\* variant: the page count is probed whatever last_page is
ProbeNeeded_always(lp) == TRUE

\* "if not last_page": None and 0 are both falsy
ProbeNeeded(lp) == (~lp.set) \/ lp.val = 0

\* "if not last_page: last_page = self._count_pdf_pages(...)"
ResolveLastPage(lp, count) ==
    IF ProbeNeeded(lp) THEN count ELSE lp.val

\* variant: only the last converter's page is accepted
AcceptPage_lastOnly(page, i, converters) ==
    converters[i] = converters[Len(converters)]

\* variant: a page without text is never accepted, whatever the converter
AcceptPage_textOnly(page, i, converters) ==
    has_text_slices(page)

\* variant: a page with any slice is accepted, with or without text
AcceptPage_anySlice(page, i, converters) ==
    get_slices(page) # <<>> \/ converters[i] = converters[Len(converters)]

\* the acceptance test of extract_page
AcceptPage(page, i, converters) ==
    has_text_slices(page) \/ converters[i] = converters[Len(converters)]

\* variant: the exception of converter.convert is not caught
StageVerdict_uncaught(out, i, converters, p) ==
    IF out.kind \in {"raise", "nopage"} THEN "raise"
    ELSE IF out.kind = "nodoc" THEN "continue"
    ELSE IF AcceptPage(PageExtractor(out, converters[i], p, DefaultFirstSliceNo),
                       i, converters)
         THEN "return" ELSE "continue"

\* one iteration of extract_page's loop over the converters, as a verdict:
\* "continue" to the next converter, "return" the page, or "raise"
StageVerdict(out, i, converters, p) ==
    IF out.kind = "raise" THEN "continue"
    ELSE IF out.kind = "nodoc" THEN "continue"
    ELSE IF out.kind = "nopage" THEN "raise"
    ELSE IF AcceptPage(PageExtractor(out, converters[i], p, DefaultFirstSliceNo),
                       i, converters)
         THEN "return" ELSE "continue"

\* variant: the loop does not suspend at the yield and converts the next page
GenAfterYield_eager(p, last) ==
    IF p < last
    THEN [pc |-> "extract", page_no |-> p + 1, advance |-> TRUE]
    ELSE [pc |-> "yielded", page_no |-> p, advance |-> FALSE]

\* where the generator stands after "yield page_no, page"
GenAfterYield(p, last) == [pc |-> "yielded", page_no |-> p, advance |-> FALSE]

\* a text node that carries non-empty text
NonEmptyTextNode(n) == n.kind = "text" /\ n.text # ""

\* what is recorded of a stage's result for the current extract_page call:
\* the stage, the kind of outcome, whether the tree holds a text node with
\* non-empty text, and how many text, table or picture nodes it holds
Summary(out, stage) ==
    [stage |-> stage, kind |-> out.kind,
     has_text |-> (\E k \in DOMAIN out.items : NonEmptyTextNode(out.items[k])),
     n_slices |-> Len(SelectSeq(out.items, IsSliceItem))]

\* -------------------------------------------------------- text normalizer
\* A string is a sequence of one-character strings.
UpperLetters ==
    <<"A", "B", "C", "D", "E", "F", "G", "H", "I", "J", "K", "L", "M",
      "N", "O", "P", "Q", "R", "S", "T", "U", "V", "W", "X", "Y", "Z">>
LowerLetters ==
    <<"a", "b", "c", "d", "e", "f", "g", "h", "i", "j", "k", "l", "m",
      "n", "o", "p", "q", "r", "s", "t", "u", "v", "w", "x", "y", "z">>
Letters == {UpperLetters[k] : k \in DOMAIN UpperLetters}
               \cup {LowerLetters[k] : k \in DOMAIN LowerLetters}
\* the class \d
Digits == {"0", "1", "2", "3", "4", "5", "6", "7", "8", "9"}
\* the class [ \t] of the second substitution
Blank_anyspace == {" ", "\t", "\n", "\r"}
Blank == {" ", "\t"}
\* the characters str.strip() removes from both ends
Whitespace == {" ", "\t", "\n", "\r"}

\* the (?i) flag: a character of the text is compared in lower case
Fold(c) ==
    IF \E k \in DOMAIN UpperLetters : UpperLetters[k] = c
    THEN LowerLetters[CHOOSE k \in DOMAIN UpperLetters : UpperLetters[k] = c]
    ELSE c

\* whether the literal lit, written in lower case, stands at position i of s
IsLit(s, i, lit) ==
    /\ i + Len(lit) - 1 <= Len(s)
    /\ \A k \in DOMAIN lit : Fold(s[i + k - 1]) = lit[k]

\* whether the character c stands at position i of s
IsChar(s, i, c) == i <= Len(s) /\ s[i] = c

\* a greedy "class+" started at position i: the position after the longest
\* run of characters of the class (i itself when the run is empty)
RECURSIVE SpanEnd(_, _, _)
SpanEnd(s, i, class) ==
    IF i <= Len(s) /\ s[i] \in class THEN SpanEnd(s, i + 1, class) ELSE i

\* glyph_pattern, (?i)glyph<(?:c=\d+,font=/[A-Z0-9]+\+[A-Za-z0-9-]+|\d+)>,
\* tried at position i of s: the position after the match, 0 when there is
\* none.  No class contains the character that follows it in the pattern, so
\* the greedy runs are the only way to match
glyph_pattern(s, i) ==
    IF ~IsLit(s, i, <<"g", "l", "y", "p", "h", "<">>) THEN 0
    ELSE LET j  == i + 6
             d1 == SpanEnd(s, j + 2, Digits)
             t1 == SpanEnd(s, d1 + 7, Letters \cup Digits)
             n1 == SpanEnd(s, t1 + 1, Letters \cup Digits \cup {"-"})
             d2 == SpanEnd(s, j, Digits)
         IN  IF /\ IsLit(s, j, <<"c", "=">>)
                /\ d1 > j + 2
                /\ IsLit(s, d1, <<",", "f", "o", "n", "t", "=", "/">>)
                /\ t1 > d1 + 7
                /\ IsChar(s, t1, "+")
                /\ n1 > t1 + 1
                /\ IsChar(s, n1, ">")
             THEN n1 + 1
             ELSE IF d2 > j /\ IsChar(s, d2, ">") THEN d2 + 1 ELSE 0

\* glyph_pattern.sub(' ', text) from position i on: the leftmost matches,
\* none overlapping, are each replaced by one space
RECURSIVE glyph_sub_join(_, _)
glyph_sub_join(s, i) ==
    IF i > Len(s) THEN <<>>
    ELSE LET e == glyph_pattern(s, i)
         IN  IF e > 0 THEN glyph_sub_join(s, e)
             ELSE <<s[i]>> \o glyph_sub_join(s, i + 1)
RECURSIVE glyph_sub(_, _)
glyph_sub(s, i) ==
    IF i > Len(s) THEN <<>>
    ELSE LET e == glyph_pattern(s, i)
         IN  IF e > 0 THEN <<" ">> \o glyph_sub(s, e)
             ELSE <<s[i]>> \o glyph_sub(s, i + 1)

\* re.sub(r'[ \t]+', ' ', text) from position i on
RECURSIVE collapse_blanks_spaces(_, _)
collapse_blanks_spaces(s, i) ==
    IF i > Len(s) THEN <<>>
    ELSE IF s[i] = " "
         THEN <<" ">> \o collapse_blanks_spaces(s, SpanEnd(s, i, {" "}))
         ELSE <<s[i]>> \o collapse_blanks_spaces(s, i + 1)
RECURSIVE collapse_blanks(_, _)
collapse_blanks(s, i) ==
    IF i > Len(s) THEN <<>>
    ELSE IF s[i] \in Blank
         THEN <<" ">> \o collapse_blanks(s, SpanEnd(s, i, Blank))
         ELSE <<s[i]>> \o collapse_blanks(s, i + 1)

\* str.strip()
strip(s) ==
    LET keep == {k \in DOMAIN s : s[k] \notin Whitespace}
    IN  IF keep = {} THEN <<>>
        ELSE SubSeq(s, CHOOSE k \in keep : \A m \in keep : k <= m,
                       CHOOSE k \in keep : \A m \in keep : k >= m)

\* _clean_pdf_glyphs / clean_pdf_glyphs
clean_pdf_glyphs(s) == strip(collapse_blanks(glyph_sub(s, 1), 1))

\* the pieces the sample texts are made of: a letter, a space, a tab, a
\* newline, a short placeholder, a long placeholder in mixed case, the two
\* halves of a placeholder, and a letter followed by two tabs
TextPieces ==
    << <<"a">>, <<" ">>, <<"\t">>, <<"\n">>,
       <<"g", "l", "y", "p", "h", "<", "7", ">">>,
       <<"G", "l", "Y", "P", "H", "<", "c", "=", "3", ",", "F", "o", "n", "t",
         "=", "/", "a", "B", "1", "+", "A", "r", "-", "B", "d", ">">>,
       <<"g", "l", "y">>,
       <<"p", "h", "<", "2", ">">>,
       <<"a", "\t", "\t">> >>

RECURSIVE Concat(_)
Concat(ps) == IF ps = <<>> THEN <<>> ELSE Head(ps) \o Concat(Tail(ps))

\* the texts the normalizer is applied to: up to MaxPieces pieces in a row
TextInputs ==
    {Concat([k \in DOMAIN ix |-> TextPieces[ix[k]]]) :
        ix \in SeqsUpTo(DOMAIN TextPieces, MaxPieces)}

\* the normalizer before it is used
TextIdle ==
    /\ text = <<>>
    /\ cleaned = <<>>
    /\ recleaned = <<>>
    /\ tpc = "idle"

\* ---------------------------------------------------------- SliceExtractor
\* Python's None where a str or a list is expected, and a value that is there
None == [some |-> FALSE, val |-> <<>>]
Some(v) == [some |-> TRUE, val |-> v]

\* a text put together from the pieces whose indexes are given
Sample(ix) == Concat([k \in DOMAIN ix |-> TextPieces[ix[k]]])

\* texts and captions of the sample nodes: empty, a letter, a text that is
\* one placeholder, a text with blanks, a placeholder and a newline in it
SampleTexts ==
    {Sample(<<>>), Sample(<<1>>), Sample(<<5>>), Sample(<<2, 1, 3, 5, 1, 4, 1>>)}
SampleCaptions == {Sample(<<>>), Sample(<<1, 2, 2, 1>>)}

\* cells of a DataFrame: a str, an int, None
StrCell(s) == [type |-> "str", val |-> s]
IntCell(d) == [type |-> "int", val |-> <<d>>]
NoneCell == [type |-> "none", val |-> <<>>]

\* what export_to_dataframe returns: the empty frame (no row or no column in
\* the table), a header without rows, rows under a header of strings, rows
\* under the default integer header
NoFrame == [columns |-> <<>>, values |-> <<>>]
SampleFrames ==
    {NoFrame,
     [columns |-> <<StrCell(Sample(<<1>>)), StrCell(Sample(<<1, 2, 5>>))>>,
      values |-> <<>>],
     [columns |-> <<StrCell(Sample(<<1, 3, 3, 1>>)), StrCell(Sample(<<1>>))>>,
      values |-> << <<StrCell(Sample(<<5, 1>>)), IntCell("4")>>,
                    <<NoneCell, StrCell(Sample(<<1, 4, 1>>))>> >>],
     [columns |-> <<IntCell("0")>>,
      values |-> << <<StrCell(Sample(<<2, 1>>))>> >>]}

\* ProvenanceItem: page_no and a bbox whose coordinates are decimal
\* fractions held in units of 0.0001
SampleProvs ==
    {[page_no |-> 1, coord_origin |-> "BOTTOMLEFT",
      bbox |-> [l |-> 123456, t |-> 456780, r |-> 100010, b |-> 19990]],
     [page_no |-> 2, coord_origin |-> "TOPLEFT",
      bbox |-> [l |-> 1250, t |-> 25000, r |-> 3750, b |-> 0]],
     [page_no |-> 1, coord_origin |-> "TOPLEFT",
      bbox |-> [l |-> 49, t |-> 99, r |-> 999949, b |-> 5051]]}

\* the nodes a SliceExtractor can wrap, with every attribute the extractor
\* reads; image says whether get_image returns an image for the node
DlItems ==
    {[kind |-> k, self_ref |-> 0, text |-> t, caption |-> c, df |-> d,
      prov |-> p, image |-> i] :
        k \in {"text", "table", "picture", "other"},
        t \in SampleTexts, c \in SampleCaptions, d \in SampleFrames,
        p \in SeqsUpTo(SampleProvs, MaxProv), i \in BOOLEAN}

\* only a TextItem has text, only a TableItem a frame, only tables and
\* pictures a caption
WellFormedItem(it) ==
    /\ it.kind # "text" => it.text = <<>>
    /\ it.kind # "table" => it.df = NoFrame
    /\ it.kind \notin {"table", "picture"} => it.caption = <<>>

get_ref(it) == it.self_ref

get_content_text(it) ==
    IF it.kind # "text" THEN None
    ELSE IF it.text = <<>> THEN None
    ELSE Some(clean_pdf_glyphs(it.text))

get_caption_text(it) ==
    IF it.kind \notin {"table", "picture"} THEN None
    ELSE IF it.caption = <<>> THEN None
    ELSE Some(clean_pdf_glyphs(it.caption))

\* the cleanup loop of get_table_data on one cell
clean_col(col) ==
    IF col.type = "str" THEN StrCell(clean_pdf_glyphs(col.val)) ELSE col

get_table_data_bare(it) ==
    IF it.kind # "table" THEN None
    ELSE Some([i \in DOMAIN it.df.values |->
                 [j \in DOMAIN it.df.values[i] |-> clean_col(it.df.values[i][j])]])
get_table_data(it) ==
    IF it.kind # "table" THEN None
    ELSE LET headers    == IF it.df.columns # <<>> THEN <<it.df.columns>>
                           ELSE <<>>
             table_data == headers \o it.df.values
         IN  IF table_data = <<>> THEN None
             ELSE Some([i \in DOMAIN table_data |->
                          [j \in DOMAIN table_data[i] |->
                              clean_col(table_data[i][j])]])

\* one SlicePositionExtractor per provenance entry, in the order of prov
get_positions_first(it) == IF it.prov = <<>> THEN <<>> ELSE <<it.prov[1]>>
get_positions(it) == it.prov

\* variant: the image of a node of any kind is returned
get_screenshot_anyKind(it) == it.image

\* SliceExtractor.get_screenshot: whether an ImageExtractor is returned
get_screenshot(it) ==
    IF it.kind \notin {"picture", "table"} THEN FALSE ELSE it.image

\* ---------------------------------------------------- SlicePositionExtractor
RECURSIVE Pow10(_)
Pow10(n) == IF n = 0 THEN 1 ELSE 10 * Pow10(n - 1)

\* round(x, ndigits) on a coordinate held in units of 0.0001: the nearest
\* multiple of 10^-ndigits; a value exactly half way (the sample coordinates
\* that are, are exact binary fractions) goes to the even neighbour
round_down(x, ndigits) ==
    LET unit == Pow10(4 - ndigits) IN (x \div unit) * unit
round(x, ndigits) ==
    LET unit == Pow10(4 - ndigits)
        q    == x \div unit
        r    == x % unit
    IN  IF 2 * r > unit \/ (2 * r = unit /\ q % 2 = 1)
        THEN (q + 1) * unit
        ELSE q * unit

get_top(prov, bbox_precision) == round(prov.bbox.t, bbox_precision)
get_right(prov, bbox_precision) == round(prov.bbox.r, bbox_precision)
get_bottom(prov, bbox_precision) == round(prov.bbox.b, bbox_precision)
get_left(prov, bbox_precision) == round(prov.bbox.l, bbox_precision)

\* ------------------------------------------------------------ adapters
\* ----------------------------------------------------------- images
\* the values of models.ImageFormat
ImageFormats == {"webp", "png", "jpeg"}
DefaultImageFormat == "webp"

\* str.upper() on a format value: the name PIL saves the image under
upper(fmt) ==
    CASE fmt = "webp" -> "WEBP"
      [] fmt = "png" -> "PNG"
      [] fmt = "jpeg" -> "JPEG"

\* ImageExtractor.get_data: the bytes pil_image.save writes, told by the
\* format and the quality they were encoded with
get_data(image_format, image_quality) ==
    [format |-> upper(image_format), quality |-> image_quality]

\* no Image (screenshot=None)
NoImage == [some |-> FALSE, content_type |-> <<>>,
            data |-> [format |-> "", quality |-> 0]]

\* ImageModelAdapter.get_model: get_data is called without arguments, so
\* with its defaults; content_type is "image/" followed by the adapter's
\* format value; base64 keeps the bytes apart
ImageModelAdapter(ad) ==
    [some |-> TRUE,
     content_type |-> <<"image", ad.image_format>>,
     data |-> get_data(DefaultImageFormat, DefaultImageQuality)]

\* "x is not None" for a bool x: the flag is never None
IsNotNone(flag) == flag \in BOOLEAN

\* SlicePositionModelAdapter.get_model
SlicePositionModelAdapter(ad, prov) ==
    [page_no      |-> prov.page_no,
     top          |-> get_top(prov, ad.bbox_precision),
     right        |-> get_right(prov, ad.bbox_precision),
     bottom       |-> get_bottom(prov, ad.bbox_precision),
     left         |-> get_left(prov, ad.bbox_precision),
     coord_origin |-> prov.coord_origin]

\* SliceModelAdapter.get_model: the models.Slice of one (slice_no,
\* SliceExtractor) pair
SliceModelAdapter(ad, pair) ==
    LET it  == pair.dl_item
        pos == get_positions(it)
    IN  [slice_no     |-> pair.slice_no,
         ref          |-> get_ref(it),
         content_text |-> get_content_text(it),
         caption_text |-> get_caption_text(it),
         table_data   |-> get_table_data(it),
         positions    |-> [k \in DOMAIN pos |->
                              SlicePositionModelAdapter(ad, pos[k])],
         screenshot   |-> IF /\ IsNotNone(ad.extract_slices_screenshot)
                             /\ get_screenshot(it)
                          THEN ImageModelAdapter(ad)
                          ELSE NoImage]

\* PageModelAdapter.get_model: the models.Page of one PageExtractor, with a
\* Slice for every pair get_slices yields
PageModelAdapter(ad, ex) ==
    LET sl == get_slices(ex)
    IN  [page_no    |-> ex.page_no,
         screenshot |-> IF /\ IsNotNone(ad.extract_pages_screenshot)
                           /\ ex.image
                        THEN ImageModelAdapter(ad)
                        ELSE NoImage,
         slices     |-> [k \in DOMAIN sl |-> SliceModelAdapter(ad, sl[k])]]

\* the settings process_document builds its adapters with
Adapters ==
    [extract_pages_screenshot : BOOLEAN, extract_slices_screenshot : BOOLEAN,
     bbox_precision : 0..DefaultBboxPrecision,
     image_format : ImageFormats,
     image_quality : {DefaultImageQuality, LowImageQuality}]
DefaultAdapter ==
    [extract_pages_screenshot |-> TRUE, extract_slices_screenshot |-> TRUE,
     bbox_precision |-> DefaultBboxPrecision,
     image_format |-> DefaultImageFormat,
     image_quality |-> DefaultImageQuality]

\* the adapters before they are used
NoExtractor == [page_no |-> 0, first_slice_no |-> 0, image |-> FALSE,
                items |-> <<>>]
NoPageModel == [page_no |-> 0, screenshot |-> NoImage, slices |-> <<>>]
AdapterIdle ==
    /\ extractor = NoExtractor
    /\ adapter = DefaultAdapter
    /\ page_model = NoPageModel
    /\ apc = "idle"

\* SliceModelAdapter.get_model as the assembled list keeps it: the slice's
\* number and its ref; the fields read from the node's content are those of
\* SliceModelAdapter above
SliceModel(pair) ==
    [slice_no |-> pair.slice_no, ref |-> get_ref(pair.dl_item)]

\* PageModelAdapter.get_model: the Page record of one PageExtractor
PageModel(page) ==
    LET sl == get_slices(page)
    IN  [page_no |-> page.page_no,
         slices |-> [k \in DOMAIN sl |-> SliceModel(sl[k])]]

\* ------------------------------------------------------------------- Init
Init ==
    /\ ocr_pipeline \in OcrPipelines
    /\ dl_converters = load_dl_converters(ocr_pipeline)
    /\ page_count = 0
    /\ first_page \in 1..MaxPage
    /\ last_page \in {[set |-> FALSE, val |-> 0]}
                     \cup {[set |-> TRUE, val |-> v] : v \in 0..MaxPage}
    /\ pc = "created"
    /\ range_last = 0
    /\ page_no = 0
    /\ stage_i = 1
    /\ results = <<>>
    /\ calls = <<>>
    /\ item = NoItem
    /\ yielded = <<>>
    /\ pulls = 0
    /\ pages = <<>>
    /\ status = "running"
    /\ TextIdle
    /\ AdapterIdle

\* ---------------------------------------------------------------- actions
\* the end of extract_page with value `page`: the generator yields the pair
YieldPair(page) ==
    LET g == GenAfterYield(page_no, range_last)
    IN  /\ item' = [page_no |-> page_no, page |-> page]
        /\ yielded' = Append(yielded, [page_no |-> page_no,
                                       is_none |-> page.is_none])
        /\ IF g.advance
           THEN /\ pc' = "extract"
                /\ page_no' = g.page_no
                /\ stage_i' = 1
           ELSE /\ pc' = g.pc
                /\ page_no' = g.page_no
                /\ stage_i' = stage_i

\* process_document's loop asks the generator for its next element; the
\* generator runs up to its next call of extract_page, or finishes
RequestNext ==
    /\ status = "running"
    /\ pc \in {"created", "suspended"}
    /\ pulls' = pulls + 1
    /\ \E count \in 0..MaxPage :
        LET probed == pc = "created" /\ ProbeNeeded(last_page)
            last == IF pc = "created"
                    THEN ResolveLastPage(last_page, count)
                    ELSE range_last
            p    == IF pc = "created" THEN first_page ELSE page_no + 1
        IN /\ page_count' = IF probed THEN count ELSE page_count
           /\ (probed \/ count = 0)
           /\ range_last' = last
           /\ IF p > last
              THEN /\ pc' = "done"
                   /\ status' = "returned"
                   /\ UNCHANGED <<page_no, results>>
              ELSE /\ pc' = "extract"
                   /\ page_no' = p
                   /\ results' = <<>>
                   /\ UNCHANGED status
    /\ stage_i' = 1
    /\ UNCHANGED <<ocr_pipeline, dl_converters, first_page, last_page, calls,
                   item, yielded, pages, textVars, adapterVars>>

\* variant: the converter whose page is returned becomes the only stage
ConvertStage_keepWinner ==
    /\ pc = "extract"
    /\ \E out \in Outcomes :
        LET stage   == dl_converters[stage_i]
            verdict == StageVerdict(out, stage_i, dl_converters, page_no)
        IN  /\ calls' = Append(calls, [page_no |-> page_no, stage |-> stage])
            /\ dl_converters' = IF verdict = "return" THEN <<stage>>
                                ELSE dl_converters
            /\ results' = Append(results, Summary(out, stage))
            /\ CASE verdict = "raise" ->
                        \* ValueError leaves extract_page and the generator;
                        \* process_document turns it into HTTP 500
                        /\ pc' = "raised"
                        /\ status' = "error500"
                        /\ UNCHANGED <<page_no, stage_i, item, yielded>>
                 [] verdict = "return" ->
                        /\ YieldPair(PageExtractor(out, stage, page_no,
                                                   DefaultFirstSliceNo))
                        /\ UNCHANGED status
                 [] verdict = "continue" /\ stage_i < Len(dl_converters) ->
                        /\ stage_i' = stage_i + 1
                        /\ UNCHANGED <<pc, page_no, item, yielded, status>>
                 [] verdict = "continue" /\ stage_i >= Len(dl_converters) ->
                        /\ YieldPair(NonePage)
                        /\ UNCHANGED status
    /\ UNCHANGED <<ocr_pipeline, page_count, first_page,
                   last_page, range_last, pulls, pages, textVars, adapterVars>>

\* one iteration of extract_page's loop: the converter is invoked and its
\* result handled; the last iteration falls through to "return None"
ConvertStage ==
    /\ pc = "extract"
    /\ \E out \in Outcomes :
        LET stage   == dl_converters[stage_i]
            verdict == StageVerdict(out, stage_i, dl_converters, page_no)
        IN  /\ calls' = Append(calls, [page_no |-> page_no, stage |-> stage])
            /\ results' = Append(results, Summary(out, stage))
            /\ CASE verdict = "raise" ->
                        \* ValueError leaves extract_page and the generator;
                        \* process_document turns it into HTTP 500
                        /\ pc' = "raised"
                        /\ status' = "error500"
                        /\ UNCHANGED <<page_no, stage_i, item, yielded>>
                 [] verdict = "return" ->
                        /\ YieldPair(PageExtractor(out, stage, page_no,
                                                   DefaultFirstSliceNo))
                        /\ UNCHANGED status
                 [] verdict = "continue" /\ stage_i < Len(dl_converters) ->
                        /\ stage_i' = stage_i + 1
                        /\ UNCHANGED <<pc, page_no, item, yielded, status>>
                 [] verdict = "continue" /\ stage_i >= Len(dl_converters) ->
                        /\ YieldPair(NonePage)
                        /\ UNCHANGED status
    /\ UNCHANGED <<ocr_pipeline, dl_converters, page_count, first_page,
                   last_page, range_last, pulls, pages, textVars, adapterVars>>

\* the body of process_document's loop: "if page: pages.append(get_model(page))"
Consume ==
    /\ pc = "yielded"
    /\ status = "running"
    /\ pages' = IF item.page.is_none THEN pages
                ELSE Append(pages, PageModel(item.page))
    /\ item' = NoItem
    /\ pc' = "suspended"
    /\ UNCHANGED <<ocr_pipeline, dl_converters, page_count, first_page,
                   last_page, range_last, page_no, stage_i, results, calls,
                   yielded, pulls, status, textVars, adapterVars>>

Next == RequestNext \/ ConvertStage \/ Consume

Spec == Init /\ [][Next]_vars

\* ----------------------------------------- the text normalizer on its own
PipelineIdle ==
    /\ ocr_pipeline = "FAST"
    /\ dl_converters = load_dl_converters("FAST")
    /\ page_count = 0
    /\ first_page = 1
    /\ last_page = [set |-> FALSE, val |-> 0]
    /\ pc = "created"
    /\ range_last = 0
    /\ page_no = 0
    /\ stage_i = 1
    /\ results = <<>>
    /\ calls = <<>>
    /\ item = NoItem
    /\ yielded = <<>>
    /\ pulls = 0
    /\ pages = <<>>
    /\ status = "idle"

InitText ==
    /\ PipelineIdle
    /\ AdapterIdle
    /\ text \in TextInputs
    /\ cleaned = <<>>
    /\ recleaned = <<>>
    /\ tpc = "input"

\* a caller applies the normalizer to a text (get_content_text,
\* get_caption_text, a cell of get_table_data)
Clean ==
    /\ tpc = "input"
    /\ cleaned' = clean_pdf_glyphs(text)
    /\ tpc' = "cleaned"
    /\ UNCHANGED <<text, recleaned, pipeVars, adapterVars>>

\* the normalizer is applied to its own output
CleanAgain ==
    /\ tpc = "cleaned"
    /\ recleaned' = clean_pdf_glyphs(cleaned)
    /\ tpc' = "recleaned"
    /\ UNCHANGED <<text, cleaned, pipeVars, adapterVars>>

NextText == Clean \/ CleanAgain

SpecText == InitText /\ [][NextText]_vars

\* ------------------------------------------- the model adapters on their own
\* a PageExtractor over a page of at most one node, with or without a page
\* image, and adapters with any settings
InitAdapter ==
    /\ PipelineIdle
    /\ TextIdle
    /\ extractor \in
         {[page_no |-> 1, first_slice_no |-> DefaultFirstSliceNo,
           image |-> i, items |-> its] :
             i \in BOOLEAN,
             its \in SeqsUpTo({it \in DlItems : WellFormedItem(it)}, 1)}
    /\ adapter \in Adapters
    /\ page_model = NoPageModel
    /\ apc = "ready"

\* process_document's "page_model = page_model_adapter.get_model(page)"
GetModel ==
    /\ apc = "ready"
    /\ page_model' = PageModelAdapter(adapter, extractor)
    /\ apc' = "built"
    /\ UNCHANGED <<extractor, adapter, pipeVars, textVars>>

NextAdapter == GetModel

SpecAdapter == InitAdapter /\ [][NextAdapter]_vars

\* ------------------------------------------------------------- properties
\* slice_no of every slice of the output, pages and slices in output order
RECURSIVE SliceNos(_)
SliceNos(pgs) ==
    IF pgs = <<>> THEN <<>>
    ELSE [k \in DOMAIN pgs[1].slices |-> pgs[1].slices[k].slice_no]
         \o SliceNos(Tail(pgs))

\* extract_page has returned for the current page and its pair is yielded
Returned == pc = "yielded"

\* what the first stage of the current extract_page call returned
FastResult == results[1]

\* C1: over the whole output, in output order, slice_no is strictly
\* increasing (hence pairwise distinct), within a page and across pages.
C1_SliceNoStrictlyIncreasing ==
    LET nos == SliceNos(pages)
    IN  \A i, j \in DOMAIN nos : i < j => nos[i] < nos[j]

\* C2: in HYBRID mode, when the fast stage's tree holds a text node with
\* non-empty text, the full-OCR stage is not invoked for that page and the
\* page extract_page returns is the fast stage's.
C2_HybridFastTextSkipsFullOcr ==
    (/\ ocr_pipeline = "HYBRID"
     /\ pc \in {"extract", "yielded", "suspended", "raised"}
     /\ Len(results) >= 1
     /\ FastResult.stage = "fast"
     /\ FastResult.kind = "tree"
     /\ FastResult.has_text)
    => /\ \A k \in DOMAIN calls :
            ~(calls[k].page_no = page_no /\ calls[k].stage = "full")
       /\ pc \in {"yielded", "suspended"}
       /\ yielded[Len(yielded)] = [page_no |-> page_no, is_none |-> FALSE]
       /\ (Returned => /\ item.page_no = page_no
                        /\ ~item.page.is_none
                        /\ item.page.stage = "fast")

C2_Witness ==
    /\ ocr_pipeline = "HYBRID"
    /\ Returned
    /\ Len(results) = 1
    /\ FastResult.kind = "tree"
    /\ FastResult.has_text
    /\ item.page.stage = "fast"
    /\ calls = <<[page_no |-> page_no, stage |-> "fast"]>>

\* C3: in HYBRID mode, when the fast stage's tree holds no text node with
\* non-empty text (it may hold tables or pictures), the full-OCR stage is
\* tried, its tree is the page returned whether or not it holds any text or
\* slice, and the fast stage's page is not returned.
C3_HybridTextlessFastReturnsFullOcr ==
    (/\ ocr_pipeline = "HYBRID"
     /\ Returned
     /\ Len(results) >= 1
     /\ FastResult.stage = "fast"
     /\ FastResult.kind = "tree"
     /\ ~FastResult.has_text)
    => /\ Len(results) = 2
       /\ results[2].stage = "full"
       /\ item.page_no = page_no
       /\ (~item.page.is_none => item.page.stage = "full")
       /\ (results[2].kind = "tree" =>
              /\ ~item.page.is_none
              /\ item.page.stage = "full"
              /\ Summary([kind |-> "tree", items |-> item.page.items],
                         "full") = results[2])

C3_Witness ==
    /\ ocr_pipeline = "HYBRID"
    /\ Returned
    /\ Len(results) = 2
    /\ FastResult.kind = "tree"
    /\ ~FastResult.has_text
    /\ FastResult.n_slices > 0
    /\ results[2].kind = "tree"
    /\ results[2].n_slices = 0
    /\ item.page.stage = "full"

\* C4 as stated: in HYBRID mode extract_page returns a page, never nothing,
\* whatever the two stages do.
C4_HybridAlwaysReturnsPage ==
    (ocr_pipeline = "HYBRID" /\ Returned) => ~item.page.is_none

\* C4 amended: in HYBRID mode extract_page returns a page exactly when the
\* fast stage returns a tree holding the page with non-empty text or the
\* full-OCR stage returns a tree holding the page; when the full-OCR stage
\* is reached and raises or returns no tree, it returns nothing.
C4_HybridReturnsPageWhenAStageAccepts ==
    (ocr_pipeline = "HYBRID" /\ pc \in {"yielded", "raised"})
    => /\ (pc = "yielded" /\ ~item.page.is_none) <=>
            \E k \in DOMAIN results :
                /\ results[k].kind = "tree"
                /\ (results[k].has_text \/ results[k].stage = "full")
       /\ (/\ Len(results) = 2
           /\ results[2].kind \in {"raise", "nodoc"})
          => (pc = "yielded" /\ item.page.is_none)

C4_Witness ==
    /\ ocr_pipeline = "HYBRID"
    /\ Returned
    /\ Len(results) = 2
    /\ FastResult.kind = "raise"
    /\ results[2].kind = "tree"
    /\ ~results[2].has_text
    /\ ~item.page.is_none

\* C5: no exception raised while a stage is processed (the converter call
\* or the handling of its result) leaves extract_page.
C5_StageFailureNeverEscapes ==
    pc # "raised"

\* C6: when every configured stage raises or returns no tree, extract_page
\* returns nothing for the page without raising, and the page is not in the
\* output list.
C6_AllStagesFailYieldsNothing ==
    (/\ pc # "created"
     /\ Len(results) = Len(dl_converters)
     /\ \A k \in DOMAIN results : results[k].kind \in {"raise", "nodoc"})
    => /\ pc # "raised"
       /\ pc # "extract"
       /\ (Returned => item = [page_no |-> page_no, page |-> NonePage])
       /\ yielded[Len(yielded)] = [page_no |-> page_no, is_none |-> TRUE]
       /\ \A k \in DOMAIN pages : pages[k].page_no # page_no

C6_Witness ==
    /\ ocr_pipeline = "HYBRID"
    /\ pc = "suspended"
    /\ Len(results) = 2
    /\ results[1].kind = "raise"
    /\ results[2].kind = "nodoc"
    /\ yielded[Len(yielded)].is_none
    /\ Len(yielded) = 2
    /\ Len(pages) = 1

\* C7: when a stage returns a tree that lacks the requested page (the
\* converter is always called with raises_on_error=False), extract_page
\* returns nothing for the page instead of raising.
C7_AbsentPageReturnsNothing ==
    (Len(results) >= 1 /\ results[Len(results)].kind = "nopage")
    => /\ pc # "raised"
       /\ status # "error500"

\* C8: a failure on a page does not abort the extraction: when
\* process_document ends, every page of the requested range, the pages
\* after a failed one included, has been handed to a converter.
C8_FailedPageDoesNotAbort ==
    (status # "running")
    => \A p \in first_page..range_last :
            \E k \in DOMAIN calls : calls[k].page_no = p

\* C9: once the generator is finished it has yielded exactly one pair per
\* page number of [first_page, last_page] (the page count when last_page is
\* unset), ascending, and none when first_page > last_page.
C9_YieldsExactlyRequestedRange ==
    LET last == IF last_page.set THEN last_page.val ELSE page_count
        n    == IF last >= first_page THEN last - first_page + 1 ELSE 0
    IN  pc \in {"done", "raised"}
        => /\ Len(yielded) = n
           /\ \A k \in DOMAIN yielded : yielded[k].page_no = first_page + k - 1

\* C10: a converter is invoked for a page only after the caller has
\* requested that page's element: the k-th page of the range is converted
\* only once the caller has asked for k elements, so a caller that stops
\* asking after page n causes no conversion of a later page.
C10_ConvertOnlyAfterRequest ==
    \A k \in DOMAIN calls : calls[k].page_no - first_page + 1 <= pulls

C10_Witness ==
    /\ pc = "suspended"
    /\ page_no < range_last
    /\ pulls = 1
    /\ Len(calls) >= 1
    /\ \A k \in DOMAIN calls : calls[k].page_no = first_page

\* ---------------------------------------------------- model-adapter claims
\* get_model has been called and has returned the page model
Built == apc = "built"

\* C11: every slice of the output carries at least one of content_text,
\* table_data or an image; no slice is emitted for a text, table or picture
\* node that has none of the three.
C11_EverySliceCarriesContent ==
    Built => \A k \in DOMAIN page_model.slices :
                 \/ page_model.slices[k].content_text.some
                 \/ page_model.slices[k].table_data.some
                 \/ page_model.slices[k].screenshot.some

\* ----------------------------------------------------------- output claims
\* ref of every slice of the output, pages and slices in output order
RECURSIVE SliceRefs(_)
SliceRefs(pgs) ==
    IF pgs = <<>> THEN <<>>
    ELSE [k \in DOMAIN pgs[1].slices |-> pgs[1].slices[k].ref]
         \o SliceRefs(Tail(pgs))

\* C12: the ref values of all slices of all pages of one extraction are
\* pairwise distinct, each page being converted by a convert call of its own
\* that keeps self_ref distinct within its tree only.
C12_RefsPairwiseDistinct ==
    LET refs == SliceRefs(pages)
    IN  \A i, j \in DOMAIN refs : i # j => refs[i] # refs[j]

\* no page of the range has been converted so far: every pair yielded holds
\* None and no stage of the current page has returned a tree with the page
NoConvertiblePage ==
    /\ \A k \in DOMAIN yielded : yielded[k].is_none
    /\ \A k \in DOMAIN results : results[k].kind # "tree"

\* C13: the output page list is ordered by strictly increasing page_no and
\* holds only page numbers of the requested range, each at most once; a
\* document with zero pages or with no convertible page gives the empty
\* list, not an error.
C13_PageListOrderedInRange ==
    /\ \A i, j \in DOMAIN pages : i < j => pages[i].page_no < pages[j].page_no
    /\ \A k \in DOMAIN pages : pages[k].page_no \in first_page..range_last
    /\ NoConvertiblePage => (pages = <<>> /\ status # "error500")

\* -------------------------------------------------- text-normalizer claims
\* the normalizer has returned for text
Cleaned == tpc \in {"cleaned", "recleaned"}

\* C14: the text normalizer is idempotent: applied to its own output it
\* returns that output unchanged.
C14_NormalizerIdempotent ==
    tpc = "recleaned" => recleaned = cleaned

\* the text "gly" "glyph<7>" "ph<2>", whose halves would join to a
\* placeholder were the middle one removed without trace
C14_Witness ==
    /\ tpc = "recleaned"
    /\ text = Sample(<<7, 5, 8>>)
    /\ cleaned = <<"g", "l", "y", " ", "p", "h", "<", "2", ">">>
    /\ recleaned = cleaned

\* C15: the normalizer's output holds no substring that matches the glyph
\* pattern, and no two consecutive characters that are a space or a tab.
C15_NoGlyphNoBlankRun ==
    Cleaned =>
        /\ \A i \in DOMAIN cleaned : glyph_pattern(cleaned, i) = 0
        /\ \A i \in DOMAIN cleaned :
              (i < Len(cleaned) /\ cleaned[i] \in {" ", "\t"})
              => cleaned[i + 1] \notin {" ", "\t"}

\* a letter, a run of tabs, a placeholder and a letter: one space is left
\* between the letters
C15_Witness ==
    /\ Cleaned
    /\ text = <<"a", "\t", "\t">> \o TextPieces[5] \o <<"a">>
    /\ cleaned = <<"a", " ", "a">>

\* number of newline characters of a string
RECURSIVE NewlineCount(_)
NewlineCount(s) ==
    IF s = <<>> THEN 0
    ELSE (IF Head(s) = "\n" THEN 1 ELSE 0) + NewlineCount(Tail(s))

\* C16 (as stated): every newline character of the input appears in the
\* output.
C16_NewlinesPreserved ==
    Cleaned => NewlineCount(cleaned) >= NewlineCount(text)

\* C16 (amended): the newlines of the output are those of the input less the
\* newlines in the leading and in the trailing whitespace of the text whose
\* placeholders have been replaced by spaces; a newline between two kept
\* characters is never removed.
C16_InnerNewlinesPreserved ==
    Cleaned => NewlineCount(cleaned) = NewlineCount(strip(glyph_sub(text, 1)))

C16_Witness ==
    /\ Cleaned
    /\ text = Sample(<<1, 4, 1>>)
    /\ cleaned = <<"a", "\n", "a">>

\* the page handed to get_model holds exactly one node, of the given kinds
OneNode(kinds) ==
    /\ Len(extractor.items) = 1
    /\ extractor.items[1].kind \in kinds

\* C17: get_table_data returns nothing or a non-empty grid: never an empty
\* one; its row 0 is the header row whenever the exported frame has columns;
\* all its rows have the same number of cells; its string cells are all in
\* normalized form.
C17_TableDataGrid ==
    (Built /\ OneNode({"table"})) =>
        LET df == extractor.items[1].df
            td == page_model.slices[1].table_data
        IN  td.some =>
              /\ td.val # <<>>
              /\ df.columns # <<>> =>
                    /\ Len(td.val) = 1 + Len(df.values)
                    /\ Len(td.val[1]) = Len(df.columns)
                    /\ \A j \in DOMAIN df.columns :
                          /\ td.val[1][j].type = df.columns[j].type
                          /\ df.columns[j].type # "str"
                             => td.val[1][j] = df.columns[j]
              /\ \A i \in DOMAIN td.val : Len(td.val[i]) = Len(td.val[1])
              /\ \A i \in DOMAIN td.val : \A j \in DOMAIN td.val[i] :
                    td.val[i][j].type = "str" =>
                        /\ \A n \in DOMAIN td.val[i][j].val :
                              glyph_pattern(td.val[i][j].val, n) = 0
                        /\ strip(td.val[i][j].val) = td.val[i][j].val
                        /\ "\t" \notin {td.val[i][j].val[n] :
                                           n \in DOMAIN td.val[i][j].val}

\* a table of two columns and two rows under a header of strings, with a
\* placeholder in the first cell of its first row
C17_Witness ==
    /\ Built
    /\ OneNode({"table"})
    /\ Len(extractor.items[1].df.values) = 2
    /\ page_model.slices[1].table_data.some
    /\ Len(page_model.slices[1].table_data.val) = 3
    /\ page_model.slices[1].table_data.val[1][1] = StrCell(<<"a", " ", "a">>)
    /\ page_model.slices[1].table_data.val[2][1] = StrCell(<<"a">>)

\* C18: the positions of a slice are one Position per provenance entry of
\* its node, in the order of the entries, each with its entry's page_no and
\* coord_origin; a node with k entries gives exactly one slice with exactly
\* k positions, k = 0 included.
C18_OnePositionPerProv ==
    (Built /\ OneNode({"text", "table", "picture"})) =>
        LET prov == extractor.items[1].prov
        IN  /\ Len(page_model.slices) = 1
            /\ Len(page_model.slices[1].positions) = Len(prov)
            /\ \A k \in DOMAIN prov :
                  /\ page_model.slices[1].positions[k].page_no = prov[k].page_no
                  /\ page_model.slices[1].positions[k].coord_origin
                         = prov[k].coord_origin

\* two entries, the first on page 2 and the second on page 1
C18_Witness ==
    /\ Built
    /\ OneNode({"text", "table", "picture"})
    /\ Len(extractor.items[1].prov) = 2
    /\ extractor.items[1].prov[1].page_no = 2
    /\ extractor.items[1].prov[2].page_no = 1
    /\ Len(page_model.slices[1].positions) = 2
    /\ page_model.slices[1].positions[1].page_no = 2
    /\ page_model.slices[1].positions[2].coord_origin = "BOTTOMLEFT"

\* e is a multiple of the unit u that is nearest to x
NearestMultiple(e, x, u) ==
    /\ e % u = 0
    /\ 2 * (e - x) <= u
    /\ 2 * (x - e) <= u

\* C19: every coordinate of a Position is the raw bbox coordinate of the
\* same name rounded to the configured number of decimals: with 2 decimals
\* the bbox (left 12.3456, top 45.678, right 10.001, bottom 1.999) is
\* emitted as (12.35, 45.68, 10.0, 2.0), no coordinate swapped.
C19_CoordinatesRounded ==
    (Built /\ OneNode({"text", "table", "picture"})) =>
        \A k \in DOMAIN page_model.slices[1].positions :
            LET p == page_model.slices[1].positions[k]
                b == extractor.items[1].prov[k].bbox
                u == Pow10(4 - adapter.bbox_precision)
            IN  /\ NearestMultiple(p.top, b.t, u)
                /\ NearestMultiple(p.right, b.r, u)
                /\ NearestMultiple(p.bottom, b.b, u)
                /\ NearestMultiple(p.left, b.l, u)
                /\ (/\ adapter.bbox_precision = 2
                    /\ b = [l |-> 123456, t |-> 456780, r |-> 100010,
                            b |-> 19990])
                   => /\ p.left = 123500
                      /\ p.top = 456800
                      /\ p.right = 100000
                      /\ p.bottom = 20000

C19_Witness ==
    /\ Built
    /\ OneNode({"text", "table", "picture"})
    /\ adapter.bbox_precision = 2
    /\ Len(extractor.items[1].prov) = 1
    /\ extractor.items[1].prov[1].bbox
           = [l |-> 123456, t |-> 456780, r |-> 100010, b |-> 19990]
    /\ page_model.slices[1].positions[1].bottom = 20000

\* C20: when the caller disables screenshot extraction, the Page or Slice
\* produced carries no screenshot, even when the converter rendered an image.
C20_DisabledScreenshotAbsent ==
    Built =>
        /\ ~adapter.extract_pages_screenshot => ~page_model.screenshot.some
        /\ ~adapter.extract_slices_screenshot =>
              \A k \in DOMAIN page_model.slices :
                  ~page_model.slices[k].screenshot.some

\* every Image of the page model: the page's screenshot and the slices'
Images ==
    {page_model.screenshot}
    \cup {page_model.slices[k].screenshot : k \in DOMAIN page_model.slices}

\* C21: the data of every Image of the output were encoded in the requested
\* image format at the requested quality, and content_type names that same
\* format.
C21_ImageEncodedAsDeclared ==
    Built => \A img \in Images :
                img.some =>
                    /\ img.content_type = <<"image", adapter.image_format>>
                    /\ img.data.format = upper(adapter.image_format)
                    /\ img.data.quality = adapter.image_quality

\* ---------------------------------------------------------- stage claims
\* the convert invocations made for page p, in order
CallsFor(p) == SelectSeq(calls, LAMBDA c : c.page_no = p)

\* C22: for one extract_page call every configured stage is invoked at most
\* once, in list order, and none after the stage whose result is returned;
\* in HYBRID mode a text-less fast result makes the full-OCR stage be invoked
\* exactly once; a page costs at most two invocations and extract_page ends
\* once the stages are used up.
C22_StagesInvokedOnceInOrder ==
    /\ \A p \in 1..(MaxPage + 1) :
          LET cp == CallsFor(p)
          IN  /\ Len(cp) <= 2
              /\ Len(cp) <= Len(dl_converters)
              /\ \A i, j \in DOMAIN cp : i # j => cp[i].stage # cp[j].stage
              /\ \A k \in DOMAIN cp : cp[k].stage = dl_converters[k]
    /\ (Returned /\ ~item.page.is_none) =>
          LET cp == CallsFor(page_no)
          IN  cp # <<>> /\ item.page.stage = cp[Len(cp)].stage
    /\ (/\ ocr_pipeline = "HYBRID"
        /\ pc \notin {"created", "extract"}
        /\ Len(results) >= 1
        /\ FastResult.stage = "fast"
        /\ FastResult.kind = "tree"
        /\ ~FastResult.has_text)
       => Cardinality({k \in DOMAIN calls :
                          calls[k] = [page_no |-> page_no, stage |-> "full"]}) = 1
    /\ pc = "extract" => Len(results) < Len(dl_converters)

\* a text-less fast tree, then the full-OCR stage raising: two invocations
\* and nothing returned
C22_Witness ==
    /\ ocr_pipeline = "HYBRID"
    /\ Returned
    /\ item.page.is_none
    /\ Len(results) = 2
    /\ FastResult.kind = "tree"
    /\ ~FastResult.has_text
    /\ results[2].kind = "raise"
    /\ CallsFor(page_no) = <<[page_no |-> page_no, stage |-> "fast"],
                             [page_no |-> page_no, stage |-> "full"]>>

\* C23: the stage list is [fast] in FAST mode, [full-OCR] in FULL mode and
\* [fast, full-OCR] in HYBRID mode; in FAST and FULL mode the tree of the
\* single stage is the page returned, whether or not it holds text.
C23_StageListPerPipeline ==
    /\ ocr_pipeline = "FAST" => dl_converters = <<"fast">>
    /\ ocr_pipeline = "FULL" => dl_converters = <<"full">>
    /\ ocr_pipeline = "HYBRID" => dl_converters = <<"fast", "full">>
    /\ (/\ ocr_pipeline \in {"FAST", "FULL"}
        /\ pc \notin {"created", "extract"}
        /\ Len(results) >= 1
        /\ FastResult.kind = "tree")
       => /\ Len(results) = 1
          /\ pc # "raised"
          /\ Returned =>
                /\ ~item.page.is_none
                /\ item.page.page_no = page_no
                /\ item.page.stage = (IF ocr_pipeline = "FAST" THEN "fast"
                                      ELSE "full")
                /\ Len(get_slices(item.page)) = FastResult.n_slices

\* a FULL-mode page whose only stage gave a tree without text is returned
C23_Witness ==
    /\ ocr_pipeline = "FULL"
    /\ Returned
    /\ Len(results) = 1
    /\ FastResult.kind = "tree"
    /\ ~FastResult.has_text
    /\ FastResult.n_slices > 0
    /\ ~item.page.is_none
    /\ item.page.stage = "full"

\* C24: has_text_slices() is true exactly when the page holds at least one
\* text node with non-empty text; tables, pictures, other nodes and text
\* nodes with empty text never make it true.  In HYBRID mode the fast
\* stage's tree is therefore the one returned exactly when it holds such a
\* node.
C24_HasTextIffNonEmptyTextNode ==
    /\ (Returned /\ ~item.page.is_none) =>
          /\ has_text_slices(item.page)
                <=> (\E k \in DOMAIN item.page.items :
                        /\ item.page.items[k].kind = "text"
                        /\ item.page.items[k].text # "")
          /\ (\A k \in DOMAIN item.page.items :
                 \/ item.page.items[k].kind # "text"
                 \/ item.page.items[k].text = "")
                => ~has_text_slices(item.page)
    /\ (/\ ocr_pipeline = "HYBRID"
        /\ pc \notin {"created", "extract"}
        /\ Len(results) >= 1
        /\ FastResult.kind = "tree")
       => (Len(results) = 1 <=> FastResult.has_text)

\* a fast tree of two text-less slices was passed over, and the page
\* returned holds a table and an empty text node and has no text slice
C24_Witness ==
    /\ ocr_pipeline = "HYBRID"
    /\ Returned
    /\ Len(results) = 2
    /\ FastResult.kind = "tree"
    /\ FastResult.n_slices = 2
    /\ ~item.page.is_none
    /\ \E k \in DOMAIN item.page.items : item.page.items[k].kind = "table"
    /\ \E k \in DOMAIN item.page.items :
          item.page.items[k].kind = "text" /\ item.page.items[k].text = ""
    /\ ~has_text_slices(item.page)

\* ---------------------------------------------------------- slice claims
\* the text, table and picture nodes of a page, in traversal order
Eligible(page) ==
    SelectSeq(page.items, LAMBDA n : n.kind \in {"text", "table", "picture"})

\* C25: get_slices() yields one pair per text, table or picture node of the
\* page, skipping every other node, in traversal order, and the k-th pair
\* carries slice number first_slice_no + k - 1.
C25_GetSlicesNumberedFromOffset ==
    (Returned /\ ~item.page.is_none) =>
        LET sl == get_slices(item.page)
            el == Eligible(item.page)
        IN  /\ Len(sl) = Len(el)
            /\ \A k \in DOMAIN sl :
                  /\ sl[k].dl_item = el[k]
                  /\ sl[k].slice_no = item.page.first_slice_no + k - 1

\* the same without the numbering: one pair per eligible node, in order
C25_OnePairPerEligibleNode ==
    (Returned /\ ~item.page.is_none) =>
        LET sl == get_slices(item.page)
            el == Eligible(item.page)
        IN  /\ Len(sl) = Len(el)
            /\ \A k \in DOMAIN sl : sl[k].dl_item = el[k]

\* C26: only the fields relevant to a node's kind are populated on its
\* slice: content_text only for a text node with non-empty text,
\* caption_text only for a table or picture node, table_data only for a
\* table node, a screenshot only for a table, picture, formula or code node.
C26_OnlyKindRelevantFields ==
    Built =>
        LET el == Eligible(extractor)
        IN  /\ Len(page_model.slices) = Len(el)
            /\ \A k \in DOMAIN page_model.slices :
                  LET sl == page_model.slices[k]
                      it == el[k]
                  IN  /\ sl.content_text.some =>
                            it.kind = "text" /\ it.text # <<>>
                      /\ sl.caption_text.some =>
                            it.kind \in {"table", "picture"}
                      /\ sl.table_data.some => it.kind = "table"
                      /\ sl.screenshot.some =>
                            it.kind \in {"table", "picture", "formula", "code"}

\* a text node that has an image gives a slice with content_text and with no
\* caption, no table data and no screenshot; the screenshots are asked for
C26_Witness ==
    /\ Built
    /\ adapter.extract_slices_screenshot
    /\ Len(page_model.slices) = 1
    /\ Eligible(extractor)[1].kind = "text"
    /\ Eligible(extractor)[1].image
    /\ page_model.slices[1].content_text.some
    /\ ~page_model.slices[1].caption_text.some
    /\ ~page_model.slices[1].table_data.some
    /\ ~page_model.slices[1].screenshot.some

\* C27: the stage list of a ContentExtractor is fixed at construction: no
\* step of extract_pages or extract_page changes the list, its order or its
\* stages, and every convert call goes to the stage the list holds at the
\* position the loop has reached.
C27_StageListFixed ==
    [][/\ dl_converters' = dl_converters
       /\ calls' # calls =>
             /\ Len(calls') = Len(calls) + 1
             /\ calls'[Len(calls')].stage = dl_converters[stage_i]]_vars

\* two pages have been converted, the second again by the first stage of
\* the list built at construction
C27_Witness ==
    /\ ocr_pipeline = "HYBRID"
    /\ dl_converters = <<"fast", "full">>
    /\ \E i, j \in DOMAIN calls :
          /\ i < j
          /\ calls[i].page_no < calls[j].page_no
          /\ calls[i].stage = "fast"
          /\ calls[j].stage = "fast"
    /\ pc = "done"

C28_FirstSliceCarriesStart ==
    LET nos == SliceNos(pages)
    IN  nos # <<>> => nos[1] = DefaultFirstSliceNo

\* C29: in HYBRID mode a fast-stage tree without a non-empty text node is
\* never the page extract_page returns: the full-OCR stage is tried, and if
\* it raises or returns no tree, extract_page returns nothing and no page of
\* that number, hence nothing of the fast tree, reaches the output.
C29_TextlessFastResultDiscarded ==
    (/\ ocr_pipeline = "HYBRID"
     /\ pc \notin {"created", "extract"}
     /\ Len(results) >= 1
     /\ FastResult.stage = "fast"
     /\ FastResult.kind = "tree"
     /\ ~FastResult.has_text)
    => /\ Len(results) = 2
       /\ results[2].stage = "full"
       /\ (Returned /\ ~item.page.is_none) => item.page.stage = "full"
       /\ results[2].kind \in {"raise", "nodoc"} =>
             /\ pc \in {"yielded", "suspended", "done"}
             /\ Returned => item.page.is_none
             /\ yielded[Len(yielded)] = [page_no |-> page_no, is_none |-> TRUE]
             /\ \A k \in DOMAIN pages : pages[k].page_no # page_no

\* a fast tree holding two text-less slices, the full-OCR stage returning no
\* document: nothing was returned and the output has no such page
C29_Witness ==
    /\ ocr_pipeline = "HYBRID"
    /\ pc = "suspended"
    /\ Len(results) = 2
    /\ FastResult.kind = "tree"
    /\ FastResult.n_slices = 2
    /\ ~FastResult.has_text
    /\ results[2].kind = "nodoc"
    /\ yielded[Len(yielded)] = [page_no |-> page_no, is_none |-> TRUE]
    /\ \A k \in DOMAIN pages : pages[k].page_no # page_no

\* C30: extract_pages takes the end of its range from the page-count probe
\* exactly when last_page is unset, and last_page = 0 counts as unset: the
\* range then runs to the probed page count; a positive last_page is used as
\* given, without a probe and without being clamped.
C30_LastPageResolution ==
    pc # "created" =>
        /\ (~last_page.set \/ last_page.val = 0) => range_last = page_count
        /\ (last_page.set /\ last_page.val > 0) =>
              /\ range_last = last_page.val
              /\ page_count = 0
        /\ \A k \in DOMAIN yielded : yielded[k].page_no <= range_last
        /\ pc = "done" =>
              Len(yielded) = (IF range_last >= first_page
                              THEN range_last - first_page + 1 ELSE 0)

\* last_page = 0: the probe answered MaxPage and the range ran to it
C30_Witness ==
    /\ last_page = [set |-> TRUE, val |-> 0]
    /\ page_count = MaxPage
    /\ range_last = MaxPage
    /\ pc = "done"
    /\ yielded # <<>>
    /\ yielded[Len(yielded)].page_no = MaxPage

====
